---- MODULE Spec2Model ----
(***************************************************************************)
(* A model of piper/ratbagd.py: the client-side proxies of the ratbagd     *)
(* D-Bus service (Ratbagd, RatbagdDevice, RatbagdProfile,                  *)
(* RatbagdResolution, RatbagdButton, RatbagdLed over _RatbagdDBus).        *)
(*                                                                         *)
(* Python values are tagged records, so that None, ints, strings, tuples,  *)
(* lists and proxies can be told apart the way the interpreter does.       *)
(* The Gio/GLib transport is the environment: its outcomes (a connection   *)
(* or None, a bind that succeeds or raises GLib.Error, a call that answers *)
(* or raises GLib.Error, cache updates, signals, the service's owner) are  *)
(* nondeterministic choices.                                               *)
(***************************************************************************)
EXTENDS Integers, Sequences, FiniteSets, TLC

\* ------------------------------------------------------------------ bounds
MaxConn == 2        \* connections bus_get_sync may hand out in one run
MaxCached == 2      \* properties the transport keeps populated at once
MaxIdx == 2         \* largest index / DPI value the server reports
MaxParams == 2      \* longest signal payload

\* ------------------------------------------------------------ Python values
NoneV == [tag |-> "None"]
IntV(n) == [tag |-> "int", v |-> n]
StrV(s) == [tag |-> "str", v |-> s]
BoolV(b) == [tag |-> "bool", v |-> b]
TupV(s) == [tag |-> "tuple", items |-> s]
ListV(s) == [tag |-> "list", items |-> s]

\* Python truthiness (what `x and y` and `if x` test).
Truthy(x) ==
    CASE x.tag = "None" -> FALSE
      [] x.tag = "bool" -> x.v
      [] x.tag = "int" -> x.v # 0
      [] x.tag = "str" -> x.v # ""
      [] x.tag = "tuple" -> Len(x.items) > 0
      [] x.tag = "list" -> Len(x.items) > 0
      [] OTHER -> TRUE

\* ------------------------------------------------------------- exceptions
NoExc == [type |-> "none", line |-> 0]
Raised(type, line) == [type |-> type, line |-> line]
RatbagdDBusUnavailable(line) == Raised("RatbagdDBusUnavailable", line)

\* ------------------------------------------------------------ the classes
Kinds == {"Manager", "Device", "Profile", "Resolution", "Button", "Led"}
\* The classes whose __init__ connects _on_g_signal to the proxy's g-signal.
SignalKinds == {"Manager", "Profile", "Resolution"}

Threads == {"main", "other"}
\* The thread that runs the application's calls.
Main == "main"

\* Object paths the server hands out, and the two service names.
Addr == {"/dev/a", "/dev/b"}
DefaultName == "org.freedesktop.ratbag1"
DevelName == "org.example.devel"
\* "/" + ratbag1.replace('.', '/')
RootPath(ratbag1) ==
    CASE ratbag1 = DefaultName -> "/org/freedesktop/ratbag1"
      [] ratbag1 = DevelName -> "/org/example/devel"

VARIABLES
    dbus,       \* _RatbagdDBus._dbus: 0 is None, n > 0 the n-th connection
    created,    \* how many connections bus_get_sync has returned so far
    owner,      \* whether the service name has an owner
    environ,    \* os.environ.get('RATBAGCTL_DEVEL'): NoneV or StrV(name)
    pc,         \* per thread: where it stands
    fr,         \* per thread: the running operation and its locals
    ret,        \* per thread: what the last operation returned
    exc,        \* per thread: what the last operation raised
    held,       \* the proxy the application keeps a reference to, or NoneV
    cache,      \* the cached properties of held's Gio.DBusProxy
    hist        \* bookkeeping about the last setter and the cache since

vars == <<dbus, created, owner, environ, pc, fr, ret, exc, held, cache, hist>>

\* ---------------------------------------------------------------- frames
NoFrame ==
    [op |-> "none", self |-> NoneV, arg |-> NoneV,
     interface |-> "", object_path |-> NoneV, proxy |-> NoneV,
     pending |-> <<>>, built |-> <<>>, loc |-> NoneV, calls |-> 0]

\* A proxy object once _RatbagdDBus.__init__ has bound it.
Proxy(kind, path, name, conn) ==
    [tag |-> "proxy", kind |-> kind, object_path |-> path,
     interface |-> name, conn |-> conn, subscribed |-> FALSE]

\* ------------------------------------------------ _RatbagdDBus.__init__
\* The application calls a class: Ratbagd() or RatbagdDevice(object_path), ...
\* Ratbagd passes interface "Manager" and no object path.
Construct(t, kind, object_path) ==
    /\ pc[t] = "idle"
    /\ (kind = "Manager") <=> (object_path = NoneV)
    /\ pc' = [pc EXCEPT ![t] = "ctor_check"]
    /\ fr' = [fr EXCEPT ![t] = [NoFrame EXCEPT !.op = "construct",
                                               !.interface = kind,
                                               !.object_path = object_path]]
    /\ ret' = [ret EXCEPT ![t] = NoneV]
    /\ exc' = [exc EXCEPT ![t] = NoExc]
    /\ UNCHANGED <<dbus, created, owner, environ, held, cache, hist>>

\* An exception leaves every frame of the thread: nothing here catches it.
Raise(t, e) ==
    /\ pc' = [pc EXCEPT ![t] = "idle"]
    /\ exc' = [exc EXCEPT ![t] = e]
    /\ ret' = [ret EXCEPT ![t] = NoneV]

\* line 68: if _RatbagdDBus._dbus is None
CtorCheck(t) ==
    /\ pc[t] = "ctor_check"
    /\ pc' = [pc EXCEPT ![t] = IF dbus = 0 THEN "ctor_get" ELSE "ctor_bind"]
    /\ UNCHANGED <<dbus, created, owner, environ, fr, ret, exc, held, cache, hist>>

\* line 69: _RatbagdDBus._dbus = Gio.bus_get_sync(...), None or a connection
CtorGet(t) ==
    /\ pc[t] = "ctor_get"
    /\ \E got \in BOOLEAN :
        /\ got => created < MaxConn
        /\ dbus' = IF got THEN created + 1 ELSE 0
        /\ created' = IF got THEN created + 1 ELSE created
    /\ pc' = [pc EXCEPT ![t] = "ctor_recheck"]
    /\ UNCHANGED <<owner, environ, fr, ret, exc, held, cache, hist>>

\* lines 70-71: if _RatbagdDBus._dbus is None: raise RatbagdDBusUnavailable()
CtorRecheck(t) ==
    /\ pc[t] = "ctor_recheck"
    /\ IF dbus = 0
       THEN Raise(t, RatbagdDBusUnavailable(71))
       ELSE /\ pc' = [pc EXCEPT ![t] = "ctor_bind"]
            /\ UNCHANGED <<ret, exc>>
    /\ UNCHANGED <<dbus, created, owner, environ, fr, held, cache, hist>>

\* lines 73-78: the service name and the object path
ServiceName == IF Truthy(environ) THEN environ.v ELSE DefaultName
ObjectPath(object_path) ==
    IF object_path = NoneV THEN RootPath(ServiceName) ELSE object_path.v

\* lines 80-91: self._object_path, then Gio.DBusProxy.new_sync, which binds or
\* raises GLib.Error
CtorBind(t) ==
    /\ pc[t] = "ctor_bind"
    /\ \E bound \in BOOLEAN :
        IF bound
        THEN /\ fr' = [fr EXCEPT ![t].proxy =
                        Proxy(fr[t].interface, ObjectPath(fr[t].object_path),
                              ServiceName, dbus)]
             /\ pc' = [pc EXCEPT ![t] = "ctor_owner"]
             /\ UNCHANGED <<ret, exc>>
        ELSE /\ Raise(t, RatbagdDBusUnavailable(91))
             /\ UNCHANGED fr
    /\ UNCHANGED <<dbus, created, owner, environ, held, cache, hist>>

\* What the thread goes on with once a proxy p is constructed: the caller of
\* the class gets it, a list comprehension appends it and takes the next path.
Constructed(t, p) ==
    IF fr[t].op = "construct"
    THEN /\ pc' = [pc EXCEPT ![t] = "idle"]
         /\ ret' = [ret EXCEPT ![t] = p]
         /\ fr' = [fr EXCEPT ![t].proxy = NoneV]
    ELSE /\ pc' = [pc EXCEPT ![t] = "list_next"]
         /\ fr' = [fr EXCEPT ![t].proxy = NoneV,
                             ![t].built = Append(@, p),
                             ![t].pending = Tail(@)]
         /\ UNCHANGED ret

\* lines 93-94 without the check of the name's owner.
CtorOwnerUnchecked(t) ==
    /\ pc[t] = "ctor_owner"
    /\ Constructed(t, [fr[t].proxy EXCEPT
                            !.subscribed = (fr[t].interface \in SignalKinds)])
    /\ UNCHANGED <<dbus, created, owner, environ, exc, held, cache, hist>>

\* lines 93-94: if self._proxy.get_name_owner() is None: raise; then the
\* subclass's __init__ connects its signal handler (lines 137, 252, 335).
CtorOwner(t) ==
    /\ pc[t] = "ctor_owner"
    /\ IF ~owner
       THEN /\ Raise(t, RatbagdDBusUnavailable(94))
            /\ UNCHANGED fr
       ELSE /\ Constructed(t, [fr[t].proxy EXCEPT
                            !.subscribed = (fr[t].interface \in SignalKinds)])
            /\ UNCHANGED exc
    /\ UNCHANGED <<dbus, created, owner, environ, held, cache, hist>>

\* ------------------------------------------------------ the property cache
\* A GLib.Variant: its type string and its value.
Variant(type, v) == [tag |-> "variant", type |-> type, v |-> v]

\* Sequences over S without repetition, at most n long (object paths are
\* unique on the bus).
RECURSIVE Distinct(_, _)
Distinct(S, n) ==
    IF n = 0 THEN {<<>>}
    ELSE {<<>>} \cup {<<x>> \o s : x \in S, s \in Distinct(S, n - 1)}
NoDup(S, n) == {s \in Distinct(S, n) : \A i, j \in 1..Len(s) : s[i] = s[j] => i = j}

Colors == {<<255, 0, 0>>, <<0, 0, 255>>}

ListProps == {"Devices", "Profiles", "Resolutions", "Buttons", "Leds"}
IndexProps == {"ActiveProfile", "ActiveResolution", "DefaultResolution"}

\* The cached properties of each interface that the modelled accessors read.
PropsOf(kind) ==
    CASE kind = "Manager" -> {"Devices"}
      [] kind = "Device" -> {"Profiles", "ActiveProfile"}
      [] kind = "Profile" -> {"Resolutions", "Buttons", "Leds",
                              "ActiveResolution", "DefaultResolution"}
      [] kind = "Resolution" -> {"XResolution", "YResolution"}
      [] kind = "Button" -> {"Index"}
      [] kind = "Led" -> {"Color"}

\* The values the server gives a property.
ValuesOf(prop) ==
    CASE prop \in ListProps -> {Variant("ao", s) : s \in NoDup(Addr, Cardinality(Addr))}
      [] prop \in IndexProps \cup {"Index"} -> {Variant("u", n) : n \in 0..MaxIdx}
      [] prop \in {"XResolution", "YResolution"} -> {Variant("u", n) : n \in 1..MaxIdx}
      [] prop = "Color" -> {Variant("(uuu)", c) : c \in Colors}

\* Variant.unpack(): an array is a list, a tuple a tuple, a number an int.
Unpack(p) ==
    CASE p.type = "ao" -> ListV([i \in 1..Len(p.v) |-> StrV(p.v[i])])
      [] p.type = "u" -> IntV(p.v)
      [] p.type = "(uuu)" -> TupV([i \in 1..Len(p.v) |-> IntV(p.v[i])])

\* lines 96-101: _get_dbus_property
GetDbusProperty(property) ==
    LET p == cache[property] IN
    IF p # NoneV THEN Unpack(p) ELSE p

\* The (XResolution, YResolution) a cache c holds, unpacked.
PairOf(c) ==
    IF "XResolution" \in DOMAIN c
    THEN <<IF c["XResolution"] # NoneV THEN Unpack(c["XResolution"]) ELSE NoneV,
           IF c["YResolution"] # NoneV THEN Unpack(c["YResolution"]) ELSE NoneV>>
    ELSE <<NoneV, NoneV>>
CachedPair == PairOf(cache)

\* The value the last answered setter call carried, and whether the cache
\* has changed since.
NoHist == [set |-> NoneV, dirty |-> FALSE]

\* ----------------------------------------------------- the proxies' methods
ListOps == {"devices", "profiles", "resolutions", "buttons", "leds"}
IndexOps == {"active_profile", "active_resolution", "default_resolution"}
CallOps == {"get_svg", "get_profile_by_index", "commit", "set_active",
            "get_resolution_by_index", "set_resolution", "set_report_rate",
            "set_default", "set_mapping", "set_special", "set_key", "disable",
            "set_mode", "set_color", "set_effect_rate", "set_brightness"}

OpsOf(kind) ==
    CASE kind = "Manager" -> {"devices"}
      [] kind = "Device" -> {"profiles", "active_profile", "get_svg",
                             "get_profile_by_index", "commit"}
      [] kind = "Profile" -> {"resolutions", "buttons", "leds",
                              "active_resolution", "default_resolution",
                              "set_active", "get_resolution_by_index"}
      [] kind = "Resolution" -> {"get_resolution", "set_resolution",
                                 "set_report_rate", "set_default"}
      [] kind = "Button" -> {"property", "set_mapping", "set_special",
                             "set_key", "disable"}
      [] kind = "Led" -> {"property", "set_mode", "set_color",
                          "set_effect_rate", "set_brightness"}

\* The list an accessor wraps: its cached property and the class of its items
\* (lines 150-152, 205-207, 269-271, 280-282, 289-291; the index accessors
\* read self.profiles or self.resolutions, lines 214, 298, 306).
ListPropOf(op) ==
    CASE op \in {"devices"} -> "Devices"
      [] op \in {"profiles", "active_profile"} -> "Profiles"
      [] op \in {"resolutions", "active_resolution", "default_resolution"} -> "Resolutions"
      [] op = "buttons" -> "Buttons"
      [] op = "leds" -> "Leds"
ChildKindOf(op) ==
    CASE op \in {"devices"} -> "Device"
      [] op \in {"profiles", "active_profile"} -> "Profile"
      [] op \in {"resolutions", "active_resolution", "default_resolution"} -> "Resolution"
      [] op = "buttons" -> "Button"
      [] op = "leds" -> "Led"
\* lines 215, 299, 307
IndexPropOf(op) ==
    CASE op = "active_profile" -> "ActiveProfile"
      [] op = "active_resolution" -> "ActiveResolution"
      [] op = "default_resolution" -> "DefaultResolution"
IndexLineOf(op) ==
    CASE op = "active_profile" -> 216
      [] op = "active_resolution" -> 300
      [] op = "default_resolution" -> 308

\* The proxies a returned value holds.
ProxiesIn(v) ==
    CASE v.tag = "proxy" -> {v}
      [] v.tag = "list" -> {v.items[i] : i \in {j \in 1..Len(v.items) : v.items[j].tag = "proxy"}}
      [] OTHER -> {}

\* What the application may pass to an operation.
Uints == {IntV(1), IntV(2)}
SignalNames == {"DeviceNew", "DeviceRemoved", "ActiveProfileChanged",
                "ActiveResolutionChanged", "DefaultResolutionChanged",
                "SomethingUnknown"}
\* Signal payloads: an index, a path, or both in either order, or nothing.
Payloads == NoDup({IntV(2), StrV("/dev/a")}, MaxParams)

ArgsOf(t, op) ==
    CASE op \in ListOps \cup IndexOps \cup {"get_resolution"} -> {NoneV}
      [] op \in {"commit", "set_active", "set_default", "disable"} -> {NoneV}
      [] op = "property" -> {StrV(p) : p \in PropsOf(held.kind)}
      [] op \in {"get_svg", "set_special"} -> {StrV("default"), IntV(1)}
      [] op \in {"get_profile_by_index", "get_resolution_by_index",
                 "set_report_rate", "set_mapping", "set_mode",
                 "set_effect_rate", "set_brightness"} ->
            {IntV(1), IntV(-1), StrV("x")}
      [] op = "set_key" -> {ListV(<<IntV(1), IntV(2)>>), ListV(<<StrV("x")>>), IntV(1)}
      [] op = "set_resolution" ->
            {TupV(<<x, y>>) : x, y \in Uints} \cup
            {TupV(<<IntV(1)>>), TupV(<<StrV("x"), IntV(1)>>), IntV(1)}
      [] op = "set_color" ->
            {TupV([i \in 1..3 |-> IntV(c[i])]) : c \in Colors} \cup
            {TupV(<<IntV(255), IntV(0)>>)}

FirstPc(op) ==
    CASE op \in ListOps \cup IndexOps -> "list_read"
      [] op = "get_resolution" -> "res_x"
      [] op = "property" -> "prop_read"
      [] op \in CallOps -> "call_args"

\* The application invokes a method, property or comparison of the proxy it
\* holds, or the main loop delivers a signal to it.
Call(t, op, arg) ==
    /\ pc[t] = "idle"
    /\ held # NoneV
    /\ op \in OpsOf(held.kind)
    /\ arg \in ArgsOf(t, op)
    /\ pc' = [pc EXCEPT ![t] = FirstPc(op)]
    /\ fr' = [fr EXCEPT ![t] = [NoFrame EXCEPT !.op = op, !.self = held,
                                               !.arg = arg]]
    /\ ret' = [ret EXCEPT ![t] = NoneV]
    /\ exc' = [exc EXCEPT ![t] = NoExc]
    /\ UNCHANGED <<dbus, created, owner, environ, held, cache, hist>>

\* The application keeps a proxy it was returned; the model follows that
\* proxy's cache from here on, nothing of which is populated yet.
Hold(t, p) ==
    /\ pc[t] = "idle"
    /\ p \in ProxiesIn(ret[t])
    /\ held' = p
    /\ cache' = [prop \in PropsOf(p.kind) |-> NoneV]
    /\ hist' = NoHist
    /\ UNCHANGED <<dbus, created, owner, environ, pc, fr, ret, exc>>

\* ---------------------------------------------------------- list accessors
\* The operation returns v.
Return(t, v) ==
    /\ pc' = [pc EXCEPT ![t] = "idle"]
    /\ ret' = [ret EXCEPT ![t] = v]

\* The list is built: a list accessor returns it, an index accessor goes on
\* to read its index.
ListBuilt(t, items) ==
    IF fr[t].op \in ListOps
    THEN /\ Return(t, ListV(items))
         /\ UNCHANGED fr
    ELSE /\ pc' = [pc EXCEPT ![t] = "index_read"]
         /\ UNCHANGED <<ret, fr>>

\* lines 149-151 (and 204-206, 268-270, 279-281, 288-290): the empty list,
\* the cached property, and the test for None
ListRead(t) ==
    /\ pc[t] = "list_read"
    /\ LET result == GetDbusProperty(ListPropOf(fr[t].op)) IN
        IF result # NoneV
        THEN /\ fr' = [fr EXCEPT ![t].pending = result.items, ![t].loc = result]
             /\ pc' = [pc EXCEPT ![t] = "list_next"]
             /\ UNCHANGED ret
        ELSE ListBuilt(t, <<>>)
    /\ UNCHANGED <<dbus, created, owner, environ, exc, held, cache, hist>>

\* The list comprehension that drops the proxies it builds after the first.
ListNextFirstOnly(t) ==
    /\ pc[t] = "list_next"
    /\ IF fr[t].pending = <<>> \/ Len(fr[t].built) >= 1
       THEN ListBuilt(t, fr[t].built)
       ELSE /\ fr' = [fr EXCEPT ![t].interface = ChildKindOf(fr[t].op),
                                ![t].object_path = Head(fr[t].pending)]
            /\ pc' = [pc EXCEPT ![t] = "ctor_check"]
            /\ UNCHANGED ret
    /\ UNCHANGED <<dbus, created, owner, environ, exc, held, cache, hist>>

\* lines 152-153 (and 207-208, 271-272, 282-283, 291-292): one step of
\* [Class(objpath) for objpath in result], or the return once it is through
ListNext(t) ==
    /\ pc[t] = "list_next"
    /\ IF fr[t].pending = <<>>
       THEN ListBuilt(t, fr[t].built)
       ELSE /\ fr' = [fr EXCEPT ![t].interface = ChildKindOf(fr[t].op),
                                ![t].object_path = Head(fr[t].pending)]
            /\ pc' = [pc EXCEPT ![t] = "ctor_check"]
            /\ UNCHANGED ret
    /\ UNCHANGED <<dbus, created, owner, environ, exc, held, cache, hist>>

\* lines 215-216 (and 299-300, 307-308): the cached index, then
\* profiles[active_index] if len(profiles) > active_index else None.
\* Python 3 raises TypeError for int > None.
IndexRead(t) ==
    /\ pc[t] = "index_read"
    /\ LET index == GetDbusProperty(IndexPropOf(fr[t].op))
           items == fr[t].built IN
        /\ fr' = [fr EXCEPT ![t].loc = index]
        /\ IF index = NoneV
           THEN Raise(t, Raised("TypeError", IndexLineOf(fr[t].op)))
           ELSE /\ Return(t, IF Len(items) > index.v THEN items[index.v + 1]
                                                     ELSE NoneV)
                /\ UNCHANGED exc
    /\ UNCHANGED <<dbus, created, owner, environ, held, cache, hist>>

\* ------------------------------------------------------------ _dbus_call
\* Each remote operation: the method it names, the type string it passes and
\* the line that calls _dbus_call.
MethodOf(op) ==
    CASE op = "get_svg" -> [method |-> "GetSvg", type |-> "s", line |-> 227]
      [] op = "get_profile_by_index" -> [method |-> "GetProfileByIndex", type |-> "u", line |-> 235]
      [] op = "commit" -> [method |-> "Commit", type |-> "", line |-> 239]
      [] op = "set_active" -> [method |-> "SetActive", type |-> "", line |-> 312]
      [] op = "get_resolution_by_index" -> [method |-> "GetResolutionByIndex", type |-> "u", line |-> 317]
      [] op = "set_resolution" -> [method |-> "SetResolution", type |-> "uu", line |-> 370]
      [] op = "set_report_rate" -> [method |-> "SetReportRate", type |-> "u", line |-> 393]
      [] op = "set_default" -> [method |-> "SetDefault", type |-> "", line |-> 397]
      [] op = "set_mapping" -> [method |-> "SetButtonMapping", type |-> "u", line |-> 427]
      [] op = "set_special" -> [method |-> "SetSpecialMapping", type |-> "s", line |-> 440]
      [] op = "set_key" -> [method |-> "SetKeyMapping", type |-> "au", line |-> 455]
      [] op = "disable" -> [method |-> "Disable", type |-> "", line |-> 472]
      [] op = "set_mode" -> [method |-> "SetMode", type |-> "u", line |-> 504]
      [] op = "set_color" -> [method |-> "SetColor", type |-> "(uuu)", line |-> 522]
      [] op = "set_effect_rate" -> [method |-> "SetEffectRate", type |-> "u", line |-> 535]
      [] op = "set_brightness" -> [method |-> "SetBrightness", type |-> "u", line |-> 548]

IsUint(x) == x.tag = "int" /\ x.v >= 0
AllUint(s) == \A i \in 1..Len(s) : IsUint(s[i])

\* Whether GLib.Variant("({})".format(type), value) accepts the values.
Matches(type, value) ==
    CASE type = "" -> Len(value) = 0
      [] type = "u" -> Len(value) = 1 /\ IsUint(value[1])
      [] type = "s" -> Len(value) = 1 /\ value[1].tag = "str"
      [] type = "uu" -> Len(value) = 2 /\ AllUint(value)
      [] type = "au" -> Len(value) = 1 /\ value[1].tag = "list" /\ AllUint(value[1].items)
      [] type = "(uuu)" -> /\ Len(value) = 1
                           /\ value[1].tag = "tuple"
                           /\ Len(value[1].items) = 3
                           /\ AllUint(value[1].items)

\* What a successful call_sync answers: a tuple of one value or more.
Results == {<<IntV(0)>>, <<StrV("/dev/a")>>, <<IntV(0), IntV(1)>>}

\* The caller's line (the setter of resolution passes *res, line 370) and
\* line 106: the arguments as a GLib.Variant, built before the try.
CallArgs(t) ==
    /\ pc[t] = "call_args"
    /\ LET m == MethodOf(fr[t].op)
           arg == fr[t].arg
           iterable == arg.tag \in {"tuple", "list"}
           value == IF fr[t].op = "set_resolution"
                    THEN (IF iterable THEN arg.items ELSE <<>>)
                    ELSE IF m.type = "" THEN <<>> ELSE <<arg>> IN
        IF fr[t].op = "set_resolution" /\ ~iterable
        THEN /\ Raise(t, Raised("TypeError", m.line))
             /\ fr' = [fr EXCEPT ![t].arg = NoneV]
        ELSE IF ~Matches(m.type, value)
        THEN /\ Raise(t, Raised("TypeError", 106))
             /\ fr' = [fr EXCEPT ![t].arg = NoneV]
        ELSE /\ fr' = [fr EXCEPT ![t].loc = TupV(value)]
             /\ pc' = [pc EXCEPT ![t] = "call_sync"]
             /\ UNCHANGED <<ret, exc>>
    /\ UNCHANGED <<dbus, created, owner, environ, held, cache, hist>>

\* What a setter's arguments would be as cached properties.
Stored(op, value, c) ==
    CASE op = "set_resolution" ->
            [c EXCEPT !["XResolution"] = Variant("u", value.items[1].v),
                      !["YResolution"] = Variant("u", value.items[2].v)]
      [] op = "set_color" ->
            [c EXCEPT !["Color"] = Variant("(uuu)",
                [i \in 1..3 |-> value.items[1].items[i].v])]
      [] OTHER -> c

\* _dbus_call that also writes what it sent into the proxy's cache.
CallSyncStoring(t) ==
    /\ pc[t] = "call_sync"
    /\ \E failed \in BOOLEAN :
        IF failed
        THEN /\ Return(t, NoneV)
             /\ fr' = [fr EXCEPT ![t].calls = @ + 1, ![t].arg = NoneV,
                                 ![t].loc = StrV("e.message")]
             /\ UNCHANGED <<hist, cache>>
        ELSE \E res \in Results :
                /\ Return(t, res[1])
                /\ fr' = [fr EXCEPT ![t].calls = @ + 1, ![t].arg = NoneV,
                                    ![t].loc = NoneV]
                /\ cache' = Stored(fr[t].op, fr[t].loc, cache)
                /\ hist' = IF fr[t].op \in {"set_resolution", "set_color"}
                           THEN [set |-> fr[t].arg, dirty |-> FALSE]
                           ELSE hist
    /\ UNCHANGED <<dbus, created, owner, environ, exc, held>>

\* _dbus_call that turns a GLib.Error into RatbagdDBusUnavailable.
CallSyncRaising(t) ==
    /\ pc[t] = "call_sync"
    /\ \E failed \in BOOLEAN :
        IF failed
        THEN /\ Raise(t, RatbagdDBusUnavailable(114))
             /\ fr' = [fr EXCEPT ![t].calls = @ + 1, ![t].arg = NoneV,
                                 ![t].loc = StrV("e.message")]
             /\ UNCHANGED hist
        ELSE \E res \in Results :
                /\ Return(t, res[1])
                /\ UNCHANGED exc
                /\ fr' = [fr EXCEPT ![t].calls = @ + 1, ![t].arg = NoneV,
                                    ![t].loc = NoneV]
                /\ hist' = IF fr[t].op \in {"set_resolution", "set_color"}
                           THEN [set |-> fr[t].arg, dirty |-> FALSE]
                           ELSE hist
    /\ UNCHANGED <<dbus, created, owner, environ, held, cache>>

\* _dbus_call that sends the call a second time when the first one failed or
\* timed out.
CallSyncRetrying(t) ==
    /\ pc[t] = "call_sync"
    /\ \E failed \in BOOLEAN :
        IF failed
        THEN IF fr[t].calls = 0
             THEN /\ fr' = [fr EXCEPT ![t].calls = @ + 1]
                  /\ UNCHANGED <<pc, ret, hist>>
             ELSE /\ Return(t, NoneV)
                  /\ fr' = [fr EXCEPT ![t].calls = @ + 1, ![t].arg = NoneV,
                                      ![t].loc = StrV("e.message")]
                  /\ UNCHANGED hist
        ELSE \E res \in Results :
                /\ Return(t, res[1])
                /\ fr' = [fr EXCEPT ![t].calls = @ + 1, ![t].arg = NoneV,
                                    ![t].loc = NoneV]
                /\ hist' = IF fr[t].op \in {"set_resolution", "set_color"}
                           THEN [set |-> fr[t].arg, dirty |-> FALSE]
                           ELSE hist
    /\ UNCHANGED <<dbus, created, owner, environ, exc, held, cache>>

\* lines 107-114: call_sync with the 500 ms timeout; res.unpack()[0], or the
\* message of the GLib.Error on stderr and None
CallSync(t) ==
    /\ pc[t] = "call_sync"
    /\ \E failed \in BOOLEAN :
        IF failed
        THEN /\ Return(t, NoneV)
             /\ fr' = [fr EXCEPT ![t].calls = @ + 1, ![t].arg = NoneV,
                                 ![t].loc = StrV("e.message")]
             /\ UNCHANGED hist
        ELSE \E res \in Results :
                /\ Return(t, res[1])
                /\ fr' = [fr EXCEPT ![t].calls = @ + 1, ![t].arg = NoneV,
                                    ![t].loc = NoneV]
                /\ hist' = IF fr[t].op \in {"set_resolution", "set_color"}
                           THEN [set |-> fr[t].arg, dirty |-> FALSE]
                           ELSE hist
    /\ UNCHANGED <<dbus, created, owner, environ, exc, held, cache>>

\* ------------------------------------------------------- cached properties
\* The plain getters (color, index and the like): line 514, 409
PropRead(t) ==
    /\ pc[t] = "prop_read"
    /\ Return(t, GetDbusProperty(fr[t].arg.v))
    /\ UNCHANGED <<dbus, created, owner, environ, fr, exc, held, cache, hist>>

\* line 362, left operand: self._get_dbus_property("XResolution").
\* at1, seen and n record what the cache held at the first read and since:
\* n counts the changes up to two, seen is kept while there is at most one.
ResX(t) ==
    /\ pc[t] = "res_x"
    /\ fr' = [fr EXCEPT ![t].loc =
                [tag |-> "reads", x |-> GetDbusProperty("XResolution"),
                 at1 |-> CachedPair, seen |-> {CachedPair}, n |-> 0]]
    /\ pc' = [pc EXCEPT ![t] = "res_y"]
    /\ UNCHANGED <<dbus, created, owner, environ, ret, exc, held, cache, hist>>

\* Whether the cache held the pair at no instant of the getter's run.
Torn(loc, pair) == [tag |-> "read", torn |-> loc.n = 1 /\ pair \notin loc.seen]

\* The getter that reads both properties at the point of its first read.
ResYAtomic(t) ==
    /\ pc[t] = "res_y"
    /\ LET pair == fr[t].loc.at1 IN
        /\ Return(t, TupV(pair))
        /\ fr' = [fr EXCEPT ![t].loc = Torn(fr[t].loc, pair)]
    /\ UNCHANGED <<dbus, created, owner, environ, exc, held, cache, hist>>

\* line 362, right operand: self._get_dbus_property("YResolution"), and the
\* tuple of the two
ResY(t) ==
    /\ pc[t] = "res_y"
    /\ LET pair == <<fr[t].loc.x, GetDbusProperty("YResolution")>> IN
        /\ Return(t, TupV(pair))
        /\ fr' = [fr EXCEPT ![t].loc = Torn(fr[t].loc, pair)]
    /\ UNCHANGED <<dbus, created, owner, environ, exc, held, cache, hist>>

\* ------------------------------------------------------------------ __eq__
\* Equality that also wants the two proxies to be of one class.
EqSameKind(self, other) ==
    IF ~Truthy(other) THEN [value |-> other, exc |-> NoExc]
    ELSE IF other.tag # "proxy"
    THEN [value |-> NoneV, exc |-> Raised("AttributeError", 117)]
    ELSE [value |-> BoolV(self.object_path = other.object_path
                          /\ self.kind = other.kind),
          exc |-> NoExc]

\* lines 116-117: other and self._object_path == other._object_path.
\* `and` gives back a falsy left operand itself; a truthy value that is no
\* proxy has no _object_path.
Eq(self, other) ==
    IF ~Truthy(other) THEN [value |-> other, exc |-> NoExc]
    ELSE IF other.tag # "proxy"
    THEN [value |-> NoneV, exc |-> Raised("AttributeError", 117)]
    ELSE [value |-> BoolV(self.object_path = other.object_path), exc |-> NoExc]

\* What the application may compare a proxy with: nothing, an int, or a
\* proxy it was just returned.
Others(t) == {NoneV, IntV(0), IntV(1)} \cup ProxiesIn(ret[t])

\* held == other, where other is another instance than held, built by a
\* later call of a class or by an accessor. The frame keeps of `other` only
\* whether it was a proxy.
Compare(t, other) ==
    /\ pc[t] = "idle"
    /\ held # NoneV
    /\ other \in Others(t)
    /\ LET r == Eq(held, other) IN
        /\ ret' = [ret EXCEPT ![t] = r.value]
        /\ exc' = [exc EXCEPT ![t] = r.exc]
    /\ fr' = [fr EXCEPT ![t] = [NoFrame EXCEPT
                !.op = "eq", !.self = held,
                !.loc = BoolV(other.tag = "proxy")]]
    /\ UNCHANGED <<dbus, created, owner, environ, pc, held, cache, hist>>

\* ------------------------------------------------------------ _on_g_signal
Event(name, value) == [tag |-> "event", name |-> name, value |-> value]
\* self.emit(name, params[0]); params[0] of an empty tuple raises IndexError.
Emit(name, params, line) ==
    IF Len(params.items) = 0
    THEN [emitted |-> <<>>, exc |-> Raised("IndexError", line)]
    ELSE [emitted |-> <<Event(name, params.items[1])>>, exc |-> NoExc]
Ignored == [emitted |-> <<>>, exc |-> NoExc]

\* lines 139-144
ManagerOnGSignal(signal, params) ==
    IF signal = "DeviceNew" THEN Emit("device-added", params, 142)
    ELSE IF signal = "DeviceRemoved" THEN Emit("device-removed", params, 144)
    ELSE Ignored

\* lines 254-257
ProfileOnGSignal(signal, params) ==
    IF signal = "ActiveProfileChanged"
    THEN Emit("active-profile-changed", params, 257)
    ELSE Ignored

\* The handler with its second branch emitting the first branch's event.
ResolutionOnGSignalSwapped(signal, params) ==
    IF signal = "ActiveResolutionChanged"
    THEN Emit("active-resolution-changed", params, 340)
    ELSE IF signal = "DefaultResolutionChanged"
    THEN Emit("active-resolution-changed", params, 342)
    ELSE Ignored

\* lines 337-342
ResolutionOnGSignal(signal, params) ==
    IF signal = "ActiveResolutionChanged"
    THEN Emit("active-resolution-changed", params, 340)
    ELSE IF signal = "DefaultResolutionChanged"
    THEN Emit("default-resolution-changed", params, 342)
    ELSE Ignored

\* The handler the class of self connected to its proxy's g-signal.
Handler(self, signal, params) ==
    CASE self.kind = "Manager" -> ManagerOnGSignal(signal, params)
      [] self.kind = "Profile" -> ProfileOnGSignal(signal, params)
      [] self.kind = "Resolution" -> ResolutionOnGSignal(signal, params)

\* The main loop hands a raw signal to the handler of the held proxy; the
\* handler reads nothing but its arguments and runs to its end. What it
\* emitted is what the thread is left with.
Signal(t, signal, params) ==
    /\ pc[t] = "idle"
    /\ held # NoneV
    /\ held.subscribed
    /\ LET r == Handler(held, signal, TupV(params)) IN
        /\ ret' = [ret EXCEPT ![t] = IF r.exc = NoExc THEN ListV(r.emitted) ELSE NoneV]
        /\ exc' = [exc EXCEPT ![t] = r.exc]
    /\ fr' = [fr EXCEPT ![t] = [NoFrame EXCEPT
                !.op = "signal", !.self = held,
                !.arg = TupV(<<StrV(signal), TupV(params)>>)]]
    /\ UNCHANGED <<dbus, created, owner, environ, pc, held, cache, hist>>

\* ------------------------------------------------------------ the transport
Populated(c) == Cardinality({p \in DOMAIN c : c[p] # NoneV})

\* What one PropertiesChanged message may carry: a new value of one property,
\* one property invalidated, or new values of XResolution and YResolution.
Changes ==
    IF held = NoneV THEN {}
    ELSE LET props == PropsOf(held.kind) IN
        UNION {{[q \in {p} |-> v] : v \in ValuesOf(p) \cup {NoneV}} : p \in props}
        \cup (IF held.kind = "Resolution"
              THEN {[q \in {"XResolution", "YResolution"} |->
                        IF q = "XResolution" THEN x ELSE y] :
                            x \in ValuesOf("XResolution"), y \in ValuesOf("YResolution")}
              ELSE {})

\* The transport updates the cache of the held proxy (this module never does).
PropertiesChanged(changed) ==
    /\ held # NoneV
    /\ LET c == [p \in DOMAIN cache |->
                    IF p \in DOMAIN changed THEN changed[p] ELSE cache[p]] IN
        /\ c # cache
        /\ Populated(c) <= MaxCached
        /\ cache' = c
        /\ IF pc[Main] = "res_y"
           THEN fr' = [fr EXCEPT ![Main].loc.seen =
                                    IF fr[Main].loc.n = 0 THEN @ \cup {PairOf(c)} ELSE {},
                                 ![Main].loc.n = IF @ < 2 THEN @ + 1 ELSE @]
           ELSE UNCHANGED fr
    /\ hist' = IF hist.set # NoneV THEN [hist EXCEPT !.dirty = TRUE] ELSE hist
    /\ UNCHANGED <<dbus, created, owner, environ, pc, ret, exc, held>>

\* --------------------------------------------------------- the environment
\* The daemon starts or stops: the service name gains or loses its owner.
OwnerChange ==
    /\ owner' = ~owner
    /\ UNCHANGED <<dbus, created, environ, pc, fr, ret, exc, held, cache, hist>>

\* No connection yet, no thread in a call, no proxy held.
Start ==
    /\ dbus = 0
    /\ created = 0
    /\ owner \in BOOLEAN
    /\ pc = [t \in Threads |-> "idle"]
    /\ fr = [t \in Threads |-> NoFrame]
    /\ ret = [t \in Threads |-> NoneV]
    /\ exc = [t \in Threads |-> NoExc]
    /\ held = NoneV
    /\ cache = [p \in {} |-> NoneV]
    /\ hist = NoHist

\* RATBAGCTL_DEVEL is unset.
Init ==
    /\ environ = NoneV
    /\ Start

\* RATBAGCTL_DEVEL is unset, or names a development instance.
InitCtor ==
    /\ environ \in {NoneV, StrV(DevelName)}
    /\ Start

\* Two threads construct proxies at the same time.
NextCtor ==
    \/ \E t \in Threads, kind \in Kinds, path \in {NoneV} \cup {StrV(a) : a \in Addr} :
            Construct(t, kind, path)
    \/ \E t \in Threads : CtorCheck(t)
    \/ \E t \in Threads : CtorGet(t)
    \/ \E t \in Threads : CtorRecheck(t)
    \/ \E t \in Threads : CtorBind(t)
    \/ \E t \in Threads : CtorOwner(t)
    \/ OwnerChange

SpecCtor == InitCtor /\ [][NextCtor]_vars

AllOps == ListOps \cup IndexOps \cup CallOps \cup
          {"get_resolution", "property"}

\* The application on its main thread, the transport and the daemon.
Next ==
    \/ \E kind \in Kinds, path \in {NoneV} \cup {StrV(a) : a \in Addr} :
            Construct(Main, kind, path)
    \/ CtorCheck(Main)
    \/ CtorGet(Main)
    \/ CtorRecheck(Main)
    \/ CtorBind(Main)
    \/ CtorOwner(Main)
    \/ \E p \in ProxiesIn(ret[Main]) : Hold(Main, p)
    \/ \E op \in AllOps :
        \E arg \in (IF held # NoneV /\ op \in OpsOf(held.kind)
                    THEN ArgsOf(Main, op) ELSE {}) : Call(Main, op, arg)
    \/ ListRead(Main)
    \/ ListNext(Main)
    \/ IndexRead(Main)
    \/ CallArgs(Main)
    \/ CallSync(Main)
    \/ PropRead(Main)
    \/ ResX(Main)
    \/ ResY(Main)
    \/ \E other \in Others(Main) : Compare(Main, other)
    \/ \E signal \in SignalNames, params \in Payloads : Signal(Main, signal, params)
    \/ \E changed \in Changes : PropertiesChanged(changed)
    \/ OwnerChange

Spec == Init /\ [][Next]_vars

\* ================================================================ claims
Unavailable(e) == e.type = "RatbagdDBusUnavailable"
Finished(op) == pc[Main] = "idle" /\ fr[Main].op = op

\* C1: a constructor that reaches the check of the name's owner while the
\* service name has no owner raises RatbagdDBusUnavailable (line 94) and
\* hands out no proxy, although the connection was obtained and the bind
\* succeeded.
C1_NoOwnerRaises ==
    [][\A t \in Threads :
        (pc[t] = "ctor_owner" /\ pc'[t] # "ctor_owner" /\ ~owner)
            => /\ exc'[t] = RatbagdDBusUnavailable(94)
               /\ ret'[t] = NoneV
               /\ ProxiesIn(ret'[t]) = {}]_vars

\* A constructor raised at line 94: it had a connection and a bound proxy.
C1_Witness ==
    \E t \in Threads : exc[t] = RatbagdDBusUnavailable(94) /\ dbus # 0

\* C2: at most one connection is ever created, and once the handle is set
\* it is never replaced or reset.
C2_InitOnce ==
    [][created' <= 1 /\ (dbus # 0 => dbus' = dbus)]_vars

\* C3: a remote call through _dbus_call never propagates an error: it
\* returns None when it does not complete (rejected arguments included) and
\* the first element of the result tuple when it does.
C3_CallNeverRaises ==
    (pc[Main] = "idle" /\ fr[Main].op \in CallOps)
        => /\ exc[Main] = NoExc
           /\ ret[Main] \in {NoneV} \cup {r[1] : r \in Results}

\* C4: held == other is true exactly when other is a proxy whose object path
\* is held's, whatever the classes of the two; compared with None it is
\* falsy and raises nothing.
C4_EqByAddress ==
    [][\A other \in Others(Main) :
        Compare(Main, other)
            => /\ (ret'[Main] = BoolV(TRUE))
                    <=> (other.tag = "proxy" /\ other.object_path = held.object_path)
               /\ (other.tag = "proxy" /\ other.object_path # held.object_path)
                    => ret'[Main] = BoolV(FALSE)
               /\ (other = NoneV)
                    => (~Truthy(ret'[Main]) /\ exc'[Main] = NoExc)]_vars

\* A comparison with another instance of the same address came out true.
C4_Witness ==
    Finished("eq") /\ ret[Main] = BoolV(TRUE) /\ fr[Main].loc = BoolV(TRUE)

\* C5: whatever the cache holds, an index accessor raises no error (the
\* service staying available), and returns None when the cached index is at
\* least the length of the list and the proxy at that position otherwise.
C5_IndexNeverRaises ==
    (pc[Main] = "idle" /\ fr[Main].op \in IndexOps /\ ~Unavailable(exc[Main]))
        => /\ exc[Main] = NoExc
           /\ LET items == fr[Main].built
                  index == fr[Main].loc IN
               /\ index.tag = "int"
               /\ ret[Main] = IF index.v >= Len(items) THEN NoneV
                              ELSE items[index.v + 1]

\* The event each class emits for a raw signal name, "" when it has none.
EventOf(kind, signal) ==
    CASE kind = "Manager" /\ signal = "DeviceNew" -> "device-added"
      [] kind = "Manager" /\ signal = "DeviceRemoved" -> "device-removed"
      [] kind = "Profile" /\ signal = "ActiveProfileChanged" -> "active-profile-changed"
      [] kind = "Resolution" /\ signal = "ActiveResolutionChanged" -> "active-resolution-changed"
      [] kind = "Resolution" /\ signal = "DefaultResolutionChanged" -> "default-resolution-changed"
      [] OTHER -> ""

\* C6: a raw signal whose name the proxy's class recognises, with a payload
\* of one element or more, produces exactly one event, the one of that name,
\* carrying the first element; any other name produces no event and no
\* error, whatever the payload.
C6_SignalTranslation ==
    Finished("signal")
        => LET signal == fr[Main].arg.items[1].v
               params == fr[Main].arg.items[2].items
               name == EventOf(fr[Main].self.kind, signal) IN
            IF name # ""
            THEN Len(params) >= 1
                    => /\ ret[Main] = ListV(<<Event(name, params[1])>>)
                       /\ exc[Main] = NoExc
            ELSE /\ ret[Main] = ListV(<<>>)
                 /\ exc[Main] = NoExc

\* ActiveProfileChanged with payload (2, ...) became one
\* active-profile-changed event carrying 2.
C6_Witness ==
    /\ Finished("signal")
    /\ held.kind = "Profile"
    /\ ret[Main] = ListV(<<Event("active-profile-changed", IntV(2))>>)

\* What a finished read of the resolution or of the colour returned, when
\* one has just finished.
ReadBack ==
    \/ Finished("get_resolution")
    \/ Finished("property") /\ fr[Main].arg = StrV("Color")

\* C7 as claimed: after a setter call that the server answered, with no
\* change of the cache since, the read returns what was set.
C7_RoundTrip ==
    (ReadBack /\ exc[Main] = NoExc /\ hist.set # NoneV /\ ~hist.dirty)
        => ret[Main] = hist.set

\* After an answered setter call and no change of the cache since, the read
\* returns what the cache holds.
C7_Stale ==
    (ReadBack /\ exc[Main] = NoExc /\ hist.set # NoneV /\ ~hist.dirty)
        => ret[Main] = IF fr[Main].op = "get_resolution" THEN TupV(CachedPair)
                       ELSE GetDbusProperty("Color")

\* C7 as amended: the setter's call leaves the cache as it is; the read
\* after it returns what the cache holds, not what was set.
C7_ReadsCache ==
    [][/\ (pc[Main] = "call_sync" /\ pc'[Main] # "call_sync") => (cache' = cache)
       /\ (pc[Main] = "res_y" /\ pc'[Main] = "idle" /\ fr[Main].loc.n = 0)
            => ret'[Main] = TupV(CachedPair)
       /\ (pc[Main] = "prop_read" /\ pc'[Main] = "idle")
            => ret'[Main] = GetDbusProperty(fr[Main].arg.v)
       /\ C7_Stale']_vars

\* The transport has brought the cache to the pair that was set, and the
\* read returned it.
C7_Witness ==
    /\ Finished("get_resolution")
    /\ hist.set # NoneV
    /\ hist.dirty
    /\ ret[Main] = hist.set

\* C8 as claimed: nothing but the construction of the proxy itself raises
\* RatbagdDBusUnavailable.
C8_OnlyConstruct ==
    Unavailable(exc[Main]) => fr[Main].op = "construct"

\* C8 as amended: RatbagdDBusUnavailable comes from _RatbagdDBus.__init__
\* alone (lines 71, 91, 94): from the call of a class, or from an accessor
\* while it builds the proxy of a cached path.
C8_OnlyInit ==
    Unavailable(exc[Main])
        => /\ exc[Main].line \in {71, 91, 94}
           /\ \/ fr[Main].op = "construct"
              \/ /\ fr[Main].op \in ListOps \cup IndexOps
                 /\ Len(fr[Main].pending) > 0

\* A list accessor of a constructed proxy raised at the owner check.
C8_Witness ==
    /\ pc[Main] = "idle"
    /\ fr[Main].op \in ListOps
    /\ exc[Main] = RatbagdDBusUnavailable(94)

\* C9: the getter returns the XResolution of its first read with the
\* YResolution of its second; when one update between the two took the
\* cached pair from (x1, y1) to (x2, y2), all four differing, it returns
\* (x1, y2), which the cache held at neither instant.
C9_TornRead ==
    [][(pc[Main] = "res_y" /\ pc'[Main] = "idle")
        => LET loc == fr[Main].loc
               cur == CachedPair IN
            /\ ret'[Main] = TupV(<<loc.at1[1], cur[2]>>)
            /\ (loc.n = 1 /\ loc.at1[1] # cur[1] /\ loc.at1[2] # cur[2])
                => /\ ret'[Main].items \notin {loc.at1, cur}
                   /\ loc.seen = {loc.at1, cur}
                   /\ fr'[Main].loc.torn]_vars

\* A getter returned a pair the cache never held while it ran.
C9_Witness ==
    /\ Finished("get_resolution")
    /\ exc[Main] = NoExc
    /\ fr[Main].loc.torn

\* What a finished list accessor returned: one proxy of the accessor's class
\* per path it read, in the order read, and nothing for an unpopulated
\* property.
C10_Wraps ==
    (pc[Main] = "idle" /\ fr[Main].op \in ListOps /\ exc[Main] = NoExc)
        => LET result == fr[Main].loc
               list == ret[Main] IN
            /\ list.tag = "list"
            /\ IF result = NoneV THEN list.items = <<>>
               ELSE /\ Len(list.items) = Len(result.items)
                    /\ \A i \in 1..Len(result.items) :
                        /\ list.items[i].tag = "proxy"
                        /\ list.items[i].kind = ChildKindOf(fr[Main].op)
                        /\ list.items[i].object_path = result.items[i].v

\* C10: every access of a list-valued property reads the cache then, and
\* returns proxies for exactly the paths read.
C10_FreshLists ==
    [][/\ (pc[Main] = "list_read" /\ pc'[Main] # "list_read")
            => \/ fr'[Main].loc = GetDbusProperty(ListPropOf(fr[Main].op))
               \/ /\ GetDbusProperty(ListPropOf(fr[Main].op)) = NoneV
                  /\ fr'[Main].built = <<>>
       /\ C10_Wraps']_vars

\* An access returned two proxies, in the order the cache lists them.
C10_Witness ==
    /\ pc[Main] = "idle"
    /\ fr[Main].op \in ListOps
    /\ exc[Main] = NoExc
    /\ Len(ret[Main].items) = 2

\* C11: no operation is retried. An invocation of a method or setter that
\* goes through _dbus_call has sent at most one call_sync when it ends: one
\* when it returned, whether the call was answered or failed or timed out,
\* and none when the arguments were refused before the call. A read of a
\* cached property, a list or index accessor, a comparison and a signal
\* handler send none.
C11_NoRetry ==
    /\ fr[Main].calls <= 1
    /\ (fr[Main].op \in CallOps /\ pc[Main] = "idle")
        => (fr[Main].calls = 1 <=> exc[Main] = NoExc)
    /\ (fr[Main].op \in CallOps /\ pc[Main] \in {"call_args", "call_sync"})
        => fr[Main].calls = 0
    /\ (fr[Main].op \notin CallOps) => fr[Main].calls = 0

\* A call failed or timed out (the handler of GLib.Error ran) and the
\* method returned None after that one call.
C11_Witness ==
    /\ pc[Main] = "idle"
    /\ fr[Main].op \in CallOps
    /\ fr[Main].loc = StrV("e.message")
    /\ ret[Main] = NoneV
    /\ fr[Main].calls = 1

====
